---- MODULE Spec2Model ----
(***************************************************************************)
(* A model of InputDeviceListener (src/InputDeviceListener.h, the Linux    *)
(* branch): the start/stop lifecycle, the detached worker thread running   *)
(* run(), the device pool rebuilt by openInputDevices(), and the           *)
(* capability-bitmask scan of availableInputDevices().                     *)
(***************************************************************************)
EXTENDS Integers, Sequences, FiniteSets, TLC

\* ------------------------------------------------------------------ bounds

\* The number of threads running run() that may exist at once: a thread that
\* has returned from run() leaves its place to the next one.
MaxThreads == 2
\* The largest value the monotonic clock reaches.
MaxClock == 7
\* The longest "B: EV=" hexadecimal string that is classified.
MaxHexLen == 3

\* ------------------------------------------------------- program constants

EV_KEY == 1
EV_REL == 2
EV_ABS == 3
\* "if (last - now > 5)", line 362.
StaleBound == 5
\* "if (++i > 9)", line 272, and "j += 10", line 275.
GridWidth == 10

\* ------------------------------------------------------------ the universe

\* The threads of the application that call start() and stop().
Callers == {"A", "B"}
\* The places of the worker threads.
Workers == 1..MaxThreads
NoWorker == 0
NoCaller == "none"

\* The devices the kernel may list in /proc/bus/input/devices, in the order
\* of their blocks in that file.
RegistryOrder == <<"kbd", "mouse">>
Devices == {RegistryOrder[n] : n \in 1..Len(RegistryOrder)}

\* The file descriptors ::open can return: the lowest free one, as POSIX
\* requires; 0..2 are the standard streams.
Fds == 3..6
\* FD_SET(-1, ...) shifts by a negative count; where the shift count is taken
\* modulo the word size this is the bit of descriptor 63.
GarbageFd == 63

\* The hexadecimal digits std::stoi(.., 16) accepts.
HexChars ==
    {"0", "1", "2", "3", "4", "5", "6", "7", "8", "9", "a", "b", "c", "d", "e", "f"}

\* std::stoi(std::string{ c }, nullptr, 16), line 260.
stoi(c) ==
    CASE c = "0" -> 0 [] c = "1" -> 1 [] c = "2" -> 2 [] c = "3" -> 3
      [] c = "4" -> 4 [] c = "5" -> 5 [] c = "6" -> 6 [] c = "7" -> 7
      [] c = "8" -> 8 [] c = "9" -> 9 [] c = "a" -> 10 [] c = "b" -> 11
      [] c = "c" -> 12 [] c = "d" -> 13 [] c = "e" -> 14 [] c = "f" -> 15

\* What an open descriptor refers to once its device has been unregistered:
\* select reports it ready and ::read on it fails with ENODEV.
Gone == "(gone)"

\* The C operator &, on non-negative integers.
RECURSIVE BitAnd(_, _)
BitAnd(a, b) ==
    IF a = 0 \/ b = 0 THEN 0
    ELSE (a % 2) * (b % 2) + 2 * BitAnd(a \div 2, b \div 2)

\* ------------------------------------------------- the capability bitmask

\* A variant of the table whose last mask misses the nibble: 0x80 for 0x88.
bitsHighOnly == <<1, 2, 4, 128>>

\* const static std::array<int, 4> bits{ 0x01, 0x02, 0x04, 0x88 }, line 165.
bits == <<1, 2, 4, 136>>

\* The loop over k, lines 261-277, from index k on (1-based here) with the
\* counters i and j: the counters and the flag after it. The break of line
\* 268 leaves the loop without the ++i of line 272.
RECURSIVE ScanNibble(_, _, _)
ScanNibble(n, k, st) ==
    IF k > Len(bits) THEN st
    ELSE IF BitAnd(n, bits[k]) # 0 /\ (st.i + st.j) \in {EV_KEY, EV_REL, EV_ABS}
         THEN [st EXCEPT !.flag = TRUE]
         ELSE IF st.i + 1 > GridWidth - 1
              THEN ScanNibble(n, k + 1, [st EXCEPT !.i = 0, !.j = st.j + GridWidth])
              ELSE ScanNibble(n, k + 1, [st EXCEPT !.i = st.i + 1])

\* The loop from ev.rbegin() to ev.rend(), lines 258-278: pos is the 1-based
\* index of the character read next, Len(ev) first.
RECURSIVE ScanEv(_, _, _)
ScanEv(ev, pos, st) ==
    IF pos = 0 THEN st
    ELSE ScanEv(ev, pos - 1, ScanNibble(stoi(ev[pos]), 1, st))

\* isInputDevice after the "B: EV=" line with the hexadecimal string ev.
isInputDevice(ev) == ScanEv(ev, Len(ev), [i |-> 0, j |-> 0, flag |-> FALSE]).flag

\* ------------------------------------------------------------ descriptors

\* The blocks of /proc/bus/input/devices: the "I: " line, the first eventN
\* handler of the "H: Handlers=" line and the "B: EV=" line of each device.
idLine == [kbd |-> "Bus=0011 Vendor=0001", mouse |-> "Bus=0003 Vendor=046d"]
\* Two devices of the same make have the same "I: " line (bus, vendor,
\* product and version).
idLineSameMake == [d \in Devices |-> "Bus=0003 Vendor=046d"]
handlerToken == [kbd |-> "event0", mouse |-> "event1"]
evLine == [kbd |-> <<"1", "2", "0", "0", "1", "3">>, mouse |-> <<"1", "7">>]

\* devicePath + token, line 248.
devicePath(d) == "/dev/input/" \o handlerToken[d]

Paths == {devicePath(d) : d \in Devices}

\* InputDevice(id, name, handler), lines 58-59: m_fd is -1.
InputDevice(id, handler) == [m_fd |-> -1, m_id |-> id, m_handler |-> handler]

\* An InputDevice that has been moved from, lines 70-80: m_fd is -1 and the
\* strings are empty.
MovedFrom == [m_fd |-> -1, m_id |-> "", m_handler |-> ""]

\* InputDevice::operator==, lines 128-136.
Equal(a, b) ==
    IF a.m_handler # "" /\ a.m_handler = b.m_handler THEN TRUE
    ELSE a.m_id = b.m_id

\* ------------------------------------------------------------------ state

VARIABLES
    m_isRunning,        \* std::atomic_bool m_isRunning, line 477
    m_lastOperateTime,  \* std::atomic<time_t> m_lastOperateTime, line 478
    m_mtx,              \* std::mutex m_mtx, line 475: the caller holding it
    m_future,           \* std::future<bool> m_future, line 476: the worker
                        \* whose promise it shares its state with
    cpc,                \* where each caller is in start() or stop()
    worker,             \* each worker thread: where it is in run() and its locals
    promiseSet,         \* per worker, the set_value calls on its promise
    futureGets,         \* per worker, the get() calls that returned its value
    fdtable,            \* the open files of the process: descriptor -> path,
                        \* "" when free, Gone when its device was unplugged
    listed,             \* the devices that file lists
    ids,                \* the "I: " line of each device's block
    exists,             \* the access paths ::access finds
    openable,           \* the access paths ::open does not refuse
    clock,              \* CLOCK_MONOTONIC, in seconds, at its last reading
    aborted,            \* the process has been killed
    evText,             \* the "B: EV=" string given to the bitmask scan
    flagged,            \* <<isInputDevice>> after the scan of evText, <<>> before
    hist                \* history of the run, read by the properties only

vars ==
    << m_isRunning, m_lastOperateTime, m_mtx, m_future, cpc, worker,
       promiseSet, futureGets, fdtable, listed, ids, exists, openable,
       clock, aborted, evText, flagged, hist >>

object == << m_isRunning, m_lastOperateTime, m_mtx, m_future >>
threads == << cpc, worker, promiseSet, futureGets >>
os == << fdtable, clock, aborted >>
devs == << listed, ids, exists, openable >>
scan == << evText, flagged >>

\* A place without a thread, and the locals of run(), lines 336-347, before
\* the thread runs. rfds holds what select left in it while the loop of line
\* 383 reads it, and is empty otherwise: line 368 overwrites it before the
\* next select. n is what the ::read of line 387 returned (with the class of
\* the event of a full record) in the pass of the loop just made, "none" when
\* that pass read nothing: line 387 overwrites it before it is used again.
NoThread ==
    [pc |-> "none", devices |-> <<>>, allfds |-> {}, rfds |-> {},
     last |-> 0, isListening |-> FALSE, it |-> 0, n |-> "none"]

\* The history: whether a key, relative or absolute event has been read, and
\* the rebuilds that found no device since the worker last slept.
NoHist == [relevantSeen |-> FALSE, emptyStreak |-> 0, blocks |-> 0, lateRebuild |-> FALSE]

\* The history after a sleep or a select has returned: with m_isRunning false
\* (a stop() has cleared it and waits), one more blocking point the worker
\* has been through since.
AfterBlock ==
    IF m_isRunning THEN hist
    ELSE [hist EXCEPT !.blocks = IF @ < 2 THEN @ + 1 ELSE @]

Init ==
    /\ m_isRunning = FALSE
    /\ m_lastOperateTime = 0
    /\ m_mtx = NoCaller
    /\ m_future = NoWorker
    /\ cpc = [c \in Callers |-> "idle"]
    /\ worker = [w \in Workers |-> NoThread]
    /\ promiseSet = [w \in Workers |-> 0]
    /\ futureGets = [w \in Workers |-> 0]
    /\ fdtable = [f \in Fds |-> ""]
    /\ listed = Devices
    /\ ids = idLine
    /\ exists = Paths
    /\ openable = Paths
    /\ clock = 1
    /\ aborted = FALSE
    /\ evText = <<>>
    /\ flagged = <<>>
    /\ hist = NoHist

\* --------------------------------------------------------- start and stop

\* A start() that spawns whatever m_isRunning says.
startBlind(c) ==
    /\ ~aborted
    /\ cpc[c] = "idle"
    /\ m_mtx = NoCaller
    /\ m_mtx' = c
    /\ cpc' = [cpc EXCEPT ![c] = "listen_mark"]
    /\ UNCHANGED << m_isRunning, m_lastOperateTime, m_future, worker,
                    promiseSet, futureGets, os, devs, scan, hist >>

\* A caller calls start(), gets the lock and reads m_isRunning, lines 42-45
\* and 449-452; until it has the lock it has done nothing, and nothing but
\* this caller depends on who holds the lock.
start(c) ==
    /\ ~aborted
    /\ cpc[c] = "idle"
    /\ m_mtx = NoCaller
    /\ m_mtx' = c
    /\ cpc' = [cpc EXCEPT ![c] = IF m_isRunning THEN "start_ret_running" ELSE "listen_mark"]
    /\ UNCHANGED << m_isRunning, m_lastOperateTime, m_future, worker,
                    promiseSet, futureGets, os, devs, scan, hist >>

\* m_isRunning = true, line 454.
listenMark(c) ==
    /\ ~aborted
    /\ cpc[c] = "listen_mark"
    /\ m_isRunning' = TRUE
    /\ cpc' = [cpc EXCEPT ![c] = "listen_spawn"]
    /\ UNCHANGED << m_lastOperateTime, m_mtx, m_future, worker,
                    promiseSet, futureGets, os, devs, scan, hist >>

\* The places no thread is in.
Free == {w \in Workers : worker[w].pc = "none"}

\* The promise, its future and the detached thread, lines 456-460: the thread
\* takes the first free place, with a promise nobody has set or read.
listenSpawn(c) ==
    /\ ~aborted
    /\ cpc[c] = "listen_spawn"
    /\ Free # {}
    /\ LET w == CHOOSE x \in Free : \A y \in Free : x <= y
       IN /\ m_future' = w
          /\ worker' = [worker EXCEPT ![w] = [NoThread EXCEPT !.pc = "entry"]]
          /\ promiseSet' = [promiseSet EXCEPT ![w] = 0]
          /\ futureGets' = [futureGets EXCEPT ![w] = 0]
    /\ cpc' = [cpc EXCEPT ![c] = "start_ret"]
    /\ UNCHANGED << m_isRunning, m_lastOperateTime, m_mtx, os, devs, scan, hist >>

\* start() returns true and the lock is released, lines 45-46: after the
\* return of line 451 ("start_ret_running") or that of line 462.
StartReturn(c) ==
    /\ ~aborted
    /\ cpc[c] \in {"start_ret", "start_ret_running"}
    /\ m_mtx' = NoCaller
    /\ cpc' = [cpc EXCEPT ![c] = "idle"]
    /\ UNCHANGED << m_isRunning, m_lastOperateTime, m_future, worker,
                    promiseSet, futureGets, os, devs, scan, hist >>

\* A stop() that shuts down whatever m_isRunning says.
stopBlind(c) ==
    /\ ~aborted
    /\ cpc[c] = "idle"
    /\ m_mtx = NoCaller
    /\ m_mtx' = c
    /\ cpc' = [cpc EXCEPT ![c] = "shutdown_clear"]
    /\ UNCHANGED << m_isRunning, m_lastOperateTime, m_future, worker,
                    promiseSet, futureGets, os, devs, scan, hist >>

\* A caller calls stop(), gets the lock and reads m_isRunning, lines 47-50
\* and 467.
stop(c) ==
    /\ ~aborted
    /\ cpc[c] = "idle"
    /\ m_mtx = NoCaller
    /\ m_mtx' = c
    /\ cpc' = [cpc EXCEPT ![c] = IF m_isRunning THEN "shutdown_clear" ELSE "stop_ret_idle"]
    /\ UNCHANGED << m_isRunning, m_lastOperateTime, m_future, worker,
                    promiseSet, futureGets, os, devs, scan, hist >>

\* m_isRunning = false, line 469.
shutdownClear(c) ==
    /\ ~aborted
    /\ cpc[c] = "shutdown_clear"
    /\ m_isRunning' = FALSE
    /\ cpc' = [cpc EXCEPT ![c] = "shutdown_get"]
    /\ UNCHANGED << m_lastOperateTime, m_mtx, m_future, worker,
                    promiseSet, futureGets, os, devs, scan, hist >>

\* A shutdown() that does not wait for the worker's value.
shutdownGetNoWait(c) ==
    /\ ~aborted
    /\ cpc[c] = "shutdown_get"
    /\ m_future # NoWorker
    /\ m_future' = NoWorker
    /\ futureGets' = [futureGets EXCEPT ![m_future] = @ + 1]
    /\ cpc' = [cpc EXCEPT ![c] = "stop_ret"]
    /\ UNCHANGED << m_isRunning, m_lastOperateTime, m_mtx, worker,
                    promiseSet, os, devs, scan, hist >>

\* m_future.get(), line 470: blocks until the promise holds a value, returns
\* it and leaves the future without a shared state. get() on a future without
\* one throws std::future_error out of stop(), which ends the process.
shutdownGet(c) ==
    /\ ~aborted
    /\ cpc[c] = "shutdown_get"
    /\ IF m_future = NoWorker
       THEN /\ aborted' = TRUE
            /\ UNCHANGED << object, threads, fdtable, clock, devs, scan, hist >>
       ELSE /\ promiseSet[m_future] > 0
            /\ m_future' = NoWorker
            /\ futureGets' = [futureGets EXCEPT ![m_future] = @ + 1]
            /\ cpc' = [cpc EXCEPT ![c] = "stop_ret"]
            /\ UNCHANGED << m_isRunning, m_lastOperateTime, m_mtx, worker,
                            promiseSet, os, devs, scan, hist >>

\* stop() returns and the lock is released, line 51: after the get() of line
\* 470, or with nothing done ("stop_ret_idle").
StopReturn(c) ==
    /\ ~aborted
    /\ cpc[c] \in {"stop_ret", "stop_ret_idle"}
    /\ m_mtx' = NoCaller
    /\ cpc' = [cpc EXCEPT ![c] = "idle"]
    /\ UNCHANGED << m_isRunning, m_lastOperateTime, m_future, worker,
                    promiseSet, futureGets, os, devs, scan, hist >>

\* --------------------------------------------------------------- the pool

\* What a build may make of FD_SET, FD_CLR or FD_ISSET on descriptor -1 (an
\* index before the array, a shift by a negative count): nothing, the bit of
\* GarbageFd, or the abort of glibc's fortified __fdelt_chk.
UBOutcomes == {"ignored", "garbage", "abort"}

\* availableInputDevices(), lines 155-287: nothing when the registry cannot be
\* opened (lines 167-171); else, in the order of the file, a descriptor for
\* each block whose bitmask is flagged and whose handler is not empty (line
\* 282).
availableInputDevices(registryOpen) ==
    LET eligible ==
            SelectSeq(RegistryOrder,
                      LAMBDA d : /\ d \in listed
                                 /\ isInputDevice(evLine[d])
                                 /\ handlerToken[d] # "")
    IN IF registryOpen
       THEN [n \in 1..Len(eligible) |->
                InputDevice(ids[eligible[n]], devicePath(eligible[n]))]
       ELSE <<>>

\* InputDevice::isOpened(), lines 82-90.
isOpened(dev) ==
    IF dev.m_handler \in exists THEN dev.m_fd = -1 ELSE FALSE

\* ::open(path, O_RDONLY), line 104, on the table tab: the lowest free
\* descriptor, or -1.
OsOpen(path, tab) ==
    LET free == {f \in Fds : tab[f] = ""}
    IN IF path \in exists /\ path \in openable /\ free # {}
       THEN CHOOSE f \in free : \A g \in free : f <= g
       ELSE -1

\* InputDevice::open(), lines 92-113: the descriptor and the table after it,
\* and what it returned.
open(dev, tab) ==
    IF dev.m_fd # -1 THEN [ok |-> TRUE, dev |-> dev, tab |-> tab]
    ELSE IF dev.m_handler = "" THEN [ok |-> FALSE, dev |-> dev, tab |-> tab]
    ELSE LET fd == OsOpen(dev.m_handler, tab)
         IN IF fd < 0 THEN [ok |-> FALSE, dev |-> dev, tab |-> tab]
            ELSE [ok |-> TRUE, dev |-> [dev EXCEPT !.m_fd = fd],
                  tab |-> [tab EXCEPT ![fd] = dev.m_handler]]

\* InputDevice::close(), lines 115-122, of each descriptor of a sequence: the
\* table after it. It is what closeInputDevices (lines 326-332) does, and what
\* the destructors (line 60) of a vector's elements do.
RECURSIVE CloseAll(_, _)
CloseAll(devices, tab) ==
    IF devices = <<>> THEN tab
    ELSE CloseAll(Tail(devices),
                  IF Head(devices).m_fd # -1
                  THEN [tab EXCEPT ![Head(devices).m_fd] = ""]
                  ELSE tab)

\* std::find_if(devices.begin(), devices.end(), ... *it == dev), line 301:
\* the index of the first descriptor equal to it, 0 for devices.end().
FindIf(devices, it) ==
    LET hits == {n \in 1..Len(devices) : Equal(it, devices[n])}
    IN IF hits = {} THEN 0 ELSE CHOOSE n \in hits : \A m \in hits : n <= m

\* FD_SET(fd, &set), lines 307 and 316.
FdSet(fd, set, ub) ==
    IF fd >= 0 THEN set \cup {fd}
    ELSE IF ub = "garbage" THEN set \cup {GarbageFd} ELSE set

\* FD_CLR(fd, &set), line 397.
FdClr(fd, set, ub) ==
    IF fd >= 0 THEN set \ {fd}
    ELSE IF ub = "garbage" THEN set \ {GarbageFd} ELSE set

\* One pass of the loop of lines 297-320, for the discovered descriptor it.
ReconcileOne(it, st, ub) ==
    LET dIt == FindIf(st.devices, it)
        kept == dIt # 0 /\ isOpened(st.devices[dIt])
    IN IF kept
       THEN [st EXCEPT !.allfds = FdSet(st.devices[dIt].m_fd, @, ub),
                       !.opened = Append(@, st.devices[dIt]),
                       !.devices[dIt] = MovedFrom,
                       !.undefined = @ \/ st.devices[dIt].m_fd < 0]
       ELSE LET r == open(it, st.tab)
            IN IF r.ok
               THEN [st EXCEPT !.allfds = FdSet(r.dev.m_fd, @, ub),
                               !.opened = Append(@, r.dev),
                               !.tab = r.tab]
               ELSE st

RECURSIVE Reconcile(_, _, _)
Reconcile(allDevices, st, ub) ==
    IF allDevices = <<>> THEN st
    ELSE Reconcile(Tail(allDevices), ReconcileOne(Head(allDevices), st, ub), ub)

\* The orders std::sort (line 322) may leave a sequence in: operator< (lines
\* 138-141) compares m_fd, and descriptors with the same m_fd may end in any
\* order.
Sorted(s) ==
    LET n == Len(s)
        perms == {p \in [1..n -> 1..n] : \A a, b \in 1..n : a # b => p[a] # p[b]}
    IN {[k \in 1..n |-> s[p[k]]] :
            p \in {q \in perms : \A k \in 1..n : k < n => s[q[k]].m_fd <= s[q[k + 1]].m_fd}}

\* An openInputDevices whose old pool is dropped without its descriptors
\* being closed.
openInputDevicesLeak(devices, tab, registryOpen, ub) ==
    LET st == Reconcile(availableInputDevices(registryOpen),
                        [devices |-> devices, opened |-> <<>>, allfds |-> {},
                         tab |-> tab, undefined |-> FALSE],
                        ub)
    IN [pools |-> Sorted(st.opened),
        allfds |-> st.allfds,
        tab |-> st.tab,
        undefined |-> st.undefined]

\* openInputDevices(allfds, devices), lines 289-324, on the pool devices and
\* the table tab: the pools it may leave (std::sort), the fd_set, the table
\* after the descriptors of the old pool that were not kept are destroyed,
\* and whether it ran into FD_SET(-1).
openInputDevices(devices, tab, registryOpen, ub) ==
    LET st == Reconcile(availableInputDevices(registryOpen),
                        [devices |-> devices, opened |-> <<>>, allfds |-> {},
                         tab |-> tab, undefined |-> FALSE],
                        ub)
    IN [pools |-> Sorted(st.opened),
        allfds |-> st.allfds,
        tab |-> CloseAll(st.devices, st.tab),
        undefined |-> st.undefined]

\* getCurrentTime(), lines 416-421: the seconds of CLOCK_MONOTONIC, which
\* does not go back. Since the last reading less than a second, or more than
\* the staleness bound (a suspended process), has passed.
getCurrentTime ==
    {t \in clock..MaxClock : t - clock \in {0, StaleBound + 1}}

\* ------------------------------------------------------------- the worker

\* The process is killed: nothing else changes, and nothing runs after it.
Abort ==
    /\ aborted' = TRUE
    /\ UNCHANGED << object, threads, fdtable, clock, devs, scan, hist >>

\* auto now = getCurrentTime(); auto last = now, lines 346-347.
RunEntry(w) ==
    /\ ~aborted
    /\ worker[w].pc = "entry"
    /\ \E t \in getCurrentTime :
        /\ clock' = t
        /\ worker' = [worker EXCEPT ![w].pc = "outer", ![w].last = t]
    /\ UNCHANGED << object, cpc, promiseSet, futureGets, fdtable,
                    aborted, devs, scan, hist >>

\* while (m_isRunning), line 348.
OuterCheck(w) ==
    /\ ~aborted
    /\ worker[w].pc = "outer"
    /\ worker' = [worker EXCEPT ![w].pc = IF m_isRunning THEN "rebuild" ELSE "cleanup"]
    /\ UNCHANGED << object, cpc, promiseSet, futureGets, os, devs, scan, hist >>

\* A loop that tries again at once when the pool is empty.
AfterRebuildBusy(pool) == IF pool = <<>> THEN "outer" ELSE "inner"

\* if (devices.empty()) { sleep_for(5 s); continue; }, lines 351-355: where
\* the worker goes with the pool openInputDevices left.
AfterRebuild(pool) == IF pool = <<>> THEN "sleep" ELSE "inner"

\* openInputDevices(allfds, devices) and what follows it, lines 350-358: with
\* an empty pool the worker goes to sleep; else isListening = true and
\* last = getCurrentTime().
Rebuild(w) ==
    /\ ~aborted
    /\ worker[w].pc = "rebuild"
    /\ \E ub \in UBOutcomes, registryOpen \in BOOLEAN :
        LET r == openInputDevices(worker[w].devices, fdtable, registryOpen, ub)
        IN IF r.undefined /\ ub = "abort" THEN Abort
           ELSE \E pool \in r.pools, t \in getCurrentTime :
                /\ fdtable' = r.tab
                /\ IF pool = <<>>
                   THEN /\ worker' = [worker EXCEPT ![w].pc = AfterRebuild(pool),
                                                    ![w].devices = pool,
                                                    ![w].allfds = r.allfds]
                        /\ clock' = clock
                   ELSE /\ worker' = [worker EXCEPT ![w].pc = AfterRebuild(pool),
                                                    ![w].devices = pool,
                                                    ![w].allfds = r.allfds,
                                                    ![w].isListening = TRUE,
                                                    ![w].last = t]
                        /\ clock' = t
                /\ hist' = [hist EXCEPT
                                !.emptyStreak =
                                    IF availableInputDevices(registryOpen) = <<>>
                                    THEN IF @ < 2 THEN @ + 1 ELSE @
                                    ELSE 0,
                                !.lateRebuild = @ \/ hist.blocks > 0]
                /\ UNCHANGED << object, cpc, promiseSet, futureGets,
                                aborted, devs, scan >>

\* std::this_thread::sleep_for(std::chrono::seconds(5)); continue, lines
\* 353-354.
Sleep(w) ==
    /\ ~aborted
    /\ worker[w].pc = "sleep"
    /\ worker' = [worker EXCEPT ![w].pc = "outer"]
    /\ hist' = [AfterBlock EXCEPT !.emptyStreak = 0]
    /\ UNCHANGED << object, cpc, promiseSet, futureGets, os, devs, scan >>

\* An inner loop that goes on while the device listens, whatever m_isRunning.
ListeningOnly(w) == worker[w].isListening

\* m_isRunning && isListening, line 359.
InnerCondition(w) == m_isRunning /\ worker[w].isListening

\* while (m_isRunning && isListening) and the head of its body, lines 359-368:
\* the staleness test, last = now and rfds = allfds.
InnerCheck(w) ==
    /\ ~aborted
    /\ worker[w].pc = "inner"
    /\ IF ~InnerCondition(w)
       THEN /\ worker' = [worker EXCEPT ![w].pc = "outer"]
            /\ clock' = clock
       ELSE \E now \in getCurrentTime :
            /\ clock' = now
            /\ IF worker[w].last - now > StaleBound
               THEN worker' = [worker EXCEPT ![w].pc = "outer"]
               ELSE worker' = [worker EXCEPT ![w].pc = "select",
                                             ![w].last = now,
                                             ![w].rfds = worker[w].allfds]
    /\ UNCHANGED << object, cpc, promiseSet, futureGets, fdtable,
                    aborted, devs, scan, hist >>

\* devices.back() + 1, line 372: the first descriptor select does not look at.
Nfds(w) == worker[w].devices[Len(worker[w].devices)].m_fd + 1

\* The descriptors select waits on: those of rfds below nfds.
Watched(w) == {f \in worker[w].rfds : 0 <= f /\ f < Nfds(w)}

\* The descriptors select waits on whose device has been unplugged: select
\* reports them ready at once.
Unplugged(w) == {f \in Watched(w) : f \in Fds /\ fdtable[f] = Gone}

\* Whether select finds a descriptor of its set that is not open (EBADF).
BadFd(w) == \E f \in Watched(w) : f \notin Fds \/ fdtable[f] = ""

\* ::select fails, lines 372-376: a signal (EINTR) or a closed descriptor in
\* the set; break.
SelectFail(w) ==
    /\ ~aborted
    /\ worker[w].pc = "select"
    /\ worker' = [worker EXCEPT ![w].pc = "outer", ![w].rfds = {}]
    /\ hist' = AfterBlock
    /\ UNCHANGED << object, cpc, promiseSet, futureGets, os, devs, scan >>

\* ::select times out after 5 seconds, lines 377-380; continue.
SelectTimeout(w) ==
    /\ ~aborted
    /\ worker[w].pc = "select"
    /\ ~BadFd(w)
    /\ Unplugged(w) = {}
    /\ worker' = [worker EXCEPT ![w].pc = "inner", ![w].rfds = {}]
    /\ hist' = AfterBlock
    /\ UNCHANGED << object, cpc, promiseSet, futureGets, os, devs, scan >>

\* ::select returns the descriptors that are ready, line 372, and the loop of
\* line 383 starts at devices.begin().
SelectReady(w) ==
    /\ ~aborted
    /\ worker[w].pc = "select"
    /\ ~BadFd(w)
    /\ \E ready \in SUBSET Watched(w) :
        /\ ready # {}
        /\ Unplugged(w) \subseteq ready
        /\ worker' = [worker EXCEPT ![w].pc = "drain", ![w].rfds = ready, ![w].it = 1]
    /\ hist' = AfterBlock
    /\ UNCHANGED << object, cpc, promiseSet, futureGets, os, devs, scan >>

\* ++it of the loop of line 383; after devices.end() the worker goes on to
\* line 406.
NextDevice(w, n) ==
    IF worker[w].it < Len(worker[w].devices)
    THEN [worker EXCEPT ![w].it = @ + 1, ![w].n = n]
    ELSE [worker EXCEPT ![w].pc = "yield", ![w].it = 0, ![w].rfds = {}, ![w].n = n]

\* FD_ISSET(*it, &rfds) is false, line 385.
DrainSkip(w) ==
    /\ ~aborted
    /\ worker[w].pc = "drain"
    /\ LET dev == worker[w].devices[worker[w].it]
       IN \/ dev.m_fd >= 0 /\ dev.m_fd \notin worker[w].rfds
          \/ dev.m_fd < 0
    /\ worker' = NextDevice(w, "none")
    /\ UNCHANGED << object, cpc, promiseSet, futureGets, os, devs, scan, hist >>

\* FD_ISSET(-1, &rfds), line 385, in a build that aborts there.
DrainAbort(w) ==
    /\ ~aborted
    /\ worker[w].pc = "drain"
    /\ worker[w].devices[worker[w].it].m_fd < 0
    /\ Abort

\* What ::read(*it, &event, sizeof(event)), line 387, may return on an open
\* descriptor: a full record of a key, relative or absolute event, a full
\* record of another class, fewer bytes than a record, or n <= 0.
ReadOutcomes == {"relevant", "other", "partial", "down"}

\* A test that takes every full record for an interaction.
AnyRecord(n) == n \in {"relevant", "other"}

\* n == sizeof(event) and event.type == EV_KEY || event.type == EV_REL ||
\* event.type == EV_ABS, lines 388-390.
IsInteraction(n) == n = "relevant"

\* A write of the time since the loop's last pass instead of the time.
elapsedAt(w, t) == t - worker[w].last

\* m_lastOperateTime = getCurrentTime(), line 392: the value worker w writes
\* when the clock reads t.
lastOperateTimeAt(w, t) == t

\* A ready descriptor is read and the read returns a full record, or part of
\* one, lines 385-394: a key, relative or absolute event sets
\* m_lastOperateTime.
DrainRead(w) ==
    /\ ~aborted
    /\ worker[w].pc = "drain"
    /\ LET dev == worker[w].devices[worker[w].it]
       IN /\ dev.m_fd >= 0
          /\ dev.m_fd \in worker[w].rfds
          /\ fdtable[dev.m_fd] # Gone
    /\ \E n \in ReadOutcomes \ {"down"} :
        /\ worker' = NextDevice(w, n)
        /\ IF IsInteraction(n)
           THEN \E t \in getCurrentTime :
                /\ clock' = t
                /\ m_lastOperateTime' = lastOperateTimeAt(w, t)
                /\ hist' = [hist EXCEPT !.relevantSeen = TRUE]
           ELSE UNCHANGED << clock, m_lastOperateTime, hist >>
    /\ UNCHANGED << m_isRunning, m_mtx, m_future, cpc, promiseSet,
                    futureGets, fdtable, aborted, devs, scan >>

\* A handling of n <= 0 that closes the device and goes on with the pass.
DisconnectNoBreak(w, ub) ==
    LET closed == [worker EXCEPT
                    ![w].allfds = FdClr(worker[w].devices[worker[w].it].m_fd, @, ub),
                    ![w].devices[worker[w].it].m_fd = -1]
    IN IF worker[w].it < Len(worker[w].devices)
       THEN [closed EXCEPT ![w].it = @ + 1, ![w].n = "down"]
       ELSE [closed EXCEPT ![w].pc = "yield", ![w].it = 0, ![w].rfds = {},
                           ![w].n = "down"]

\* What lines 397-400 do to the locals of worker w: FD_CLR(*it, &allfds),
\* it->close(), isListening = false and break.
Disconnect(w, ub) ==
    [worker EXCEPT
        ![w].allfds = FdClr(worker[w].devices[worker[w].it].m_fd, @, ub),
        ![w].devices[worker[w].it].m_fd = -1,
        ![w].isListening = FALSE,
        ![w].pc = "yield",
        ![w].it = 0,
        ![w].rfds = {},
        ![w].n = "down"]

\* The read returns n <= 0, lines 395-401: FD_CLR, close, isListening = false
\* and break. A descriptor of -1 gets here when FD_ISSET(-1, &rfds) was true:
\* ::read(-1, ...) returns -1.
DrainDown(w) ==
    /\ ~aborted
    /\ worker[w].pc = "drain"
    /\ \E ub \in UBOutcomes :
        LET it == worker[w].it
            dev == worker[w].devices[it]
        IN /\ dev.m_fd >= 0 => dev.m_fd \in worker[w].rfds
           /\ IF dev.m_fd < 0 /\ ub = "abort" THEN Abort
              ELSE /\ worker' = Disconnect(w, ub)
                   /\ fdtable' = IF dev.m_fd >= 0
                                 THEN [fdtable EXCEPT ![dev.m_fd] = ""]
                                 ELSE fdtable
                   /\ UNCHANGED << object, cpc, promiseSet, futureGets,
                                   clock, aborted, devs, scan, hist >>

\* std::this_thread::sleep_for(std::chrono::milliseconds(1)), line 406.
Yield(w) ==
    /\ ~aborted
    /\ worker[w].pc = "yield"
    /\ worker' = [worker EXCEPT ![w].pc = "inner", ![w].n = "none"]
    /\ UNCHANGED << object, cpc, promiseSet, futureGets, os, devs, scan, hist >>

\* A run() that leaves the loop without closing the pool.
CleanupNothing(w) ==
    /\ ~aborted
    /\ worker[w].pc = "cleanup"
    /\ worker' = [worker EXCEPT ![w].pc = "clear"]
    /\ UNCHANGED << object, cpc, promiseSet, futureGets, os, devs, scan, hist >>

\* closeInputDevices(devices), line 410.
Cleanup(w) ==
    /\ ~aborted
    /\ worker[w].pc = "cleanup"
    /\ fdtable' = CloseAll(worker[w].devices, fdtable)
    /\ worker' = [worker EXCEPT
                    ![w].pc = "clear",
                    ![w].devices = [n \in 1..Len(worker[w].devices) |->
                                        [worker[w].devices[n] EXCEPT !.m_fd = -1]]]
    /\ UNCHANGED << object, cpc, promiseSet, futureGets, clock,
                    aborted, devs, scan, hist >>

\* A run() that sets the promise's value as it clears the flag, and again at
\* its end.
ClearRunningAndSignal(w) ==
    /\ ~aborted
    /\ worker[w].pc = "clear"
    /\ m_isRunning' = FALSE
    /\ promiseSet' = [promiseSet EXCEPT ![w] = @ + 1]
    /\ worker' = [worker EXCEPT ![w].pc = "signal"]
    /\ UNCHANGED << m_lastOperateTime, m_mtx, m_future, cpc, futureGets, os,
                    devs, scan, hist >>

\* m_isRunning = false, line 412.
ClearRunning(w) ==
    /\ ~aborted
    /\ worker[w].pc = "clear"
    /\ m_isRunning' = FALSE
    /\ worker' = [worker EXCEPT ![w].pc = "signal"]
    /\ UNCHANGED << m_lastOperateTime, m_mtx, m_future, cpc, promiseSet,
                    futureGets, os, devs, scan, hist >>

\* quitPromise.set_value(m_isRunning), line 413, the last statement of run():
\* the locals are destroyed (the pool's descriptors hold no handle by then)
\* and the thread ends.
Signal(w) ==
    /\ ~aborted
    /\ worker[w].pc = "signal"
    /\ promiseSet' = [promiseSet EXCEPT ![w] = @ + 1]
    /\ worker' = [worker EXCEPT ![w] = NoThread]
    /\ hist' = [hist EXCEPT !.blocks = 0, !.lateRebuild = FALSE]
    /\ UNCHANGED << object, cpc, futureGets, os, devs, scan >>

\* -------------------------------------------------------- the environment

\* A device node is where the kernel lists a device, and ::open succeeds
\* only on a node: openable is within exists, and exists within the paths of
\* listed. What the worker finds for a device that is not listed, or opening
\* a path that does not exist, does not depend on the rest.

\* The kernel registers a device: it is listed, its node is not there yet.
Plug(d) ==
    /\ ~aborted
    /\ d \notin listed
    /\ listed' = listed \cup {d}
    /\ UNCHANGED << object, threads, os, ids, exists, openable, scan, hist >>

\* The kernel unregisters a device: its node goes with it, and the
\* descriptors open on it stay open but refer to no device any more.
Unplug(d) ==
    /\ ~aborted
    /\ d \in listed
    /\ listed' = listed \ {d}
    /\ exists' = exists \ {devicePath(d)}
    /\ openable' = openable \ {devicePath(d)}
    /\ fdtable' = [f \in Fds |-> IF fdtable[f] = devicePath(d) THEN Gone ELSE fdtable[f]]
    /\ UNCHANGED << object, threads, clock, aborted, ids, scan, hist >>

\* The node of a listed device appears; ::open is still refused.
NodeAdded(d) ==
    /\ ~aborted
    /\ d \in listed
    /\ devicePath(d) \notin exists
    /\ exists' = exists \cup {devicePath(d)}
    /\ UNCHANGED << object, threads, os, listed, ids, openable, scan, hist >>

\* The node of a device disappears while the device is still listed.
NodeRemoved(d) ==
    /\ ~aborted
    /\ devicePath(d) \in exists
    /\ exists' = exists \ {devicePath(d)}
    /\ openable' = openable \ {devicePath(d)}
    /\ UNCHANGED << object, threads, os, listed, ids, scan, hist >>

\* ::open of a node starts to succeed, or starts to fail (its permissions).
AccessChange(d) ==
    /\ ~aborted
    /\ devicePath(d) \in exists
    /\ openable' = IF devicePath(d) \in openable
                   THEN openable \ {devicePath(d)}
                   ELSE openable \cup {devicePath(d)}
    /\ UNCHANGED << object, threads, os, listed, ids, exists, scan, hist >>

\* ------------------------------------------------------ the specification

CallerStep(c) ==
    \/ start(c) \/ listenMark(c) \/ listenSpawn(c) \/ StartReturn(c)
    \/ stop(c) \/ shutdownClear(c) \/ shutdownGet(c) \/ StopReturn(c)

WorkerStep(w) ==
    \/ RunEntry(w) \/ OuterCheck(w) \/ Rebuild(w) \/ Sleep(w) \/ InnerCheck(w)
    \/ SelectFail(w) \/ SelectTimeout(w) \/ SelectReady(w)
    \/ DrainSkip(w) \/ DrainAbort(w) \/ DrainRead(w) \/ DrainDown(w)
    \/ Yield(w) \/ Cleanup(w) \/ ClearRunning(w) \/ Signal(w)

EnvStep(d) ==
    \/ Plug(d) \/ Unplug(d) \/ NodeAdded(d) \/ NodeRemoved(d) \/ AccessChange(d)

Next ==
    \/ \E c \in Callers : CallerStep(c)
    \/ \E w \in Workers : WorkerStep(w)
    \/ \E d \in Devices : EnvStep(d)

Spec == Init /\ [][Next]_vars

\* -------------------------------------------------------------- properties

\* The threads that are in run().
Alive == {w \in Workers : worker[w].pc # "none"}

\* A thread is in the loops of run(), lines 346-408.
InLoop(w) ==
    worker[w].pc \in {"entry", "outer", "rebuild", "sleep", "inner", "select",
                      "drain", "yield"}

\* No descriptor of the process is open on a device.
AllClosed == \A f \in Fds : fdtable[f] = ""

\* C1. Clean stop: when a stop() call returns, m_isRunning is false, no
\* worker thread is left in run(), and no device handle is open.
C1_CleanStop ==
    \A c \in Callers :
        cpc[c] \in {"stop_ret", "stop_ret_idle"} =>
            /\ ~m_isRunning
            /\ \A w \in Workers : ~InLoop(w) /\ worker[w].pc = "none"
            /\ AllClosed

\* A stop() that waited for a worker which had read an event is returning.
C1_Witness ==
    \E c \in Callers, w \in Workers :
        /\ cpc[c] = "stop_ret"
        /\ futureGets[w] = 1
        /\ m_lastOperateTime > 0

\* C2. Idempotent start, single worker: at most one worker thread is alive
\* at any time; when start() returns m_isRunning is true and one worker is
\* alive; a start() that found the monitor running took the return of line
\* 451 and spawned nothing.
C2_SingleWorker ==
    /\ Cardinality(Alive) <= 1
    /\ \A c \in Callers :
        /\ cpc[c] \in {"start_ret", "start_ret_running"} =>
                m_isRunning /\ Cardinality(Alive) = 1
        /\ cpc[c] \in {"listen_mark", "listen_spawn"} => Alive = {}

\* A start() that found the monitor running returns while the worker waits
\* in select.
C2_Witness ==
    \E c \in Callers, w \in Workers :
        /\ cpc[c] = "start_ret_running"
        /\ worker[w].pc = "select"

\* ------------------------------------------- the bitmask scan on its own

\* The strings of hexadecimal digits of length n.
HexStrings(n) == [1..n -> HexChars]

\* The monitor as constructed, and any "B: EV=" string of at most MaxHexLen
\* digits about to be scanned.
InitClassify ==
    /\ m_isRunning = FALSE
    /\ m_lastOperateTime = 0
    /\ m_mtx = NoCaller
    /\ m_future = NoWorker
    /\ cpc = [c \in Callers |-> "idle"]
    /\ worker = [w \in Workers |-> NoThread]
    /\ promiseSet = [w \in Workers |-> 0]
    /\ futureGets = [w \in Workers |-> 0]
    /\ fdtable = [f \in Fds |-> ""]
    /\ listed = Devices
    /\ ids = idLine
    /\ exists = Paths
    /\ openable = Paths
    /\ clock = 1
    /\ aborted = FALSE
    /\ evText \in UNION {HexStrings(n) : n \in 0..MaxHexLen}
    /\ flagged = <<>>
    /\ hist = NoHist

\* The "B: EV=" branch of availableInputDevices, lines 253-279, on evText.
Classify ==
    /\ flagged = <<>>
    /\ flagged' = <<isInputDevice(evText)>>
    /\ UNCHANGED << object, threads, os, devs, evText, hist >>

SpecClassify == InitClassify /\ [][Classify]_vars

\* The number a string of hexadecimal digits writes.
RECURSIVE HexValue(_)
HexValue(ev) ==
    IF ev = <<>> THEN 0
    ELSE 16 * HexValue(SubSeq(ev, 1, Len(ev) - 1)) + stoi(ev[Len(ev)])

\* Bit b of the number v is set.
BitSet(v, b) == (v \div (2 ^ b)) % 2 = 1

\* C9. Classification correctness: the scan flags a bitmask, given as a
\* string of at most MaxHexLen hexadecimal digits, exactly when bit 1 (key),
\* bit 2 (relative motion) or bit 3 (absolute motion) of its value is set.
C9_Classification ==
    flagged # <<>> =>
        (flagged[1] <=>
            \E b \in {EV_KEY, EV_REL, EV_ABS} : BitSet(HexValue(evText), b))

\* A mask with only the key bit set has been flagged.
C9_Witness == evText = <<"2">> /\ flagged = <<TRUE>>

\* Every thread that can run does: the worker's sleep and select return, and
\* a caller inside start() or stop() goes on when it can.
LiveSpec ==
    /\ Init
    /\ [][Next]_vars
    /\ \A w \in Workers : WF_vars(WorkerStep(w))
    /\ \A c \in Callers :
        WF_vars(listenMark(c) \/ listenSpawn(c) \/ StartReturn(c) \/
                shutdownClear(c) \/ shutdownGet(c) \/ StopReturn(c))

\* C3. No deadlock on stop: every call of start() or stop() that holds the
\* lifecycle lock returns, so that the lock is free again for the callers
\* blocked on it; a stop() that waits on the completion signal gets it.
C3_NoDeadlock ==
    /\ \A c \in Callers : (cpc[c] # "idle") ~> (cpc[c] = "idle")
    /\ (m_mtx # NoCaller) ~> (m_mtx = NoCaller)

\* C4, as claimed: whenever m_isRunning is false once stop() has been
\* called, the worker has left run() and every device handle is closed, also
\* while that stop() is still waiting. (Before the first stop() the flag is
\* false only when there is no worker, so the statement is made of every
\* state.)
C4_AsClaimed == ~m_isRunning => Alive = {} /\ AllClosed

\* A stop() is between its write of m_isRunning and the return of get().
StopInProgress == \E c \in Callers : cpc[c] = "shutdown_get"

\* C4, amended: when m_isRunning is false and no stop() call is waiting for
\* the worker (stop() has returned, or is about to), the worker has left
\* run() and every device handle is closed.
C4_StoppedMeansExited ==
    (~m_isRunning /\ ~StopInProgress) => Alive = {} /\ AllClosed

\* After a start/stop cycle in which an event was read, nobody is in start()
\* or stop() and the flag is false.
C4_Witness ==
    /\ ~m_isRunning
    /\ \A c \in Callers : cpc[c] = "idle"
    /\ \E w \in Workers : promiseSet[w] = 1 /\ futureGets[w] = 1
    /\ hist.relevantSeen

\* C5. Monotonic timestamp: m_lastOperateTime never decreases, and it is 0
\* as long as no key, relative or absolute event has been read.
C5_Monotonic ==
    /\ [](~hist.relevantSeen => m_lastOperateTime = 0)
    /\ [][m_lastOperateTime' >= m_lastOperateTime]_vars

\* The timestamp has been written after the clock moved on, in a running
\* monitor.
C5_Witness == m_isRunning /\ m_lastOperateTime > StaleBound

\* The devices the rebuild that has just run discovered: those listed, when
\* the registry could be read (an empty discovery is counted in hist).
Discovered == IF hist.emptyStreak = 0 THEN listed ELSE {}

\* The pool of worker w holds device d with an open handle that select will
\* wait on.
Pooled(w, d) ==
    \E n \in 1..Len(worker[w].devices) :
        /\ worker[w].devices[n].m_handler = devicePath(d)
        /\ worker[w].devices[n].m_fd >= 0
        /\ fdtable[worker[w].devices[n].m_fd] = devicePath(d)
        /\ worker[w].devices[n].m_fd \in worker[w].allfds
        /\ worker[w].devices[n].m_fd < Nfds(w)

\* The pool of worker w holds a descriptor without a handle.
HasDead(w) ==
    \E n \in 1..Len(worker[w].devices) : worker[w].devices[n].m_fd = -1

\* Worker w has just run openInputDevices.
Rebuilt(w) ==
    /\ worker[w].pc = "rebuild"
    /\ worker'[w].pc # "rebuild"
    /\ ~aborted'

\* C6. Disconnect recovery: when a read has reported end-of-stream on a
\* pooled device (the pool holds its closed descriptor), then after the next
\* rebuild the pool holds no descriptor without a handle, and every device
\* that is discovered and can be opened is in the pool with an open handle
\* that is waited on.
C6_DisconnectRecovery ==
    [][\A w \in Workers :
        (Rebuilt(w) /\ HasDead(w)) =>
            /\ ~HasDead(w)'
            /\ \A d \in Discovered' : devicePath(d) \in openable => Pooled(w, d)'
      ]_vars

\* C7. Reconciliation stability: a rebuild that discovers exactly the
\* devices of the pool, all of them with an open handle and an existing
\* path, leaves the pool and the open descriptors of the process as they
\* were.
C7_Stability ==
    [][\A w \in Workers :
        ( /\ Rebuilt(w)
          /\ worker[w].devices # <<>>
          /\ {devicePath(d) : d \in Discovered'} =
                {worker[w].devices[n].m_handler : n \in 1..Len(worker[w].devices)}
          /\ \A n \in 1..Len(worker[w].devices) :
                /\ worker[w].devices[n].m_fd >= 0
                /\ worker[w].devices[n].m_handler \in exists )
        => /\ worker'[w].devices = worker[w].devices
           /\ fdtable' = fdtable
      ]_vars

\* C8. Idle with no devices: a rebuild that discovers nothing is never
\* followed by another one before the worker has slept; while the worker has
\* not yet woken from that sleep it is not in the listening loop, its pool is
\* empty, and m_lastOperateTime is not written.
C8_IdleNoDevices ==
    /\ [](hist.emptyStreak <= 1)
    /\ [](hist.emptyStreak = 1 =>
            /\ \E w \in Workers : worker[w].pc = "sleep"
            /\ \A w \in Workers :
                /\ worker[w].pc \notin {"inner", "select", "drain", "yield"}
                /\ worker[w].devices = <<>>)
    /\ [][hist.emptyStreak = 1 => m_lastOperateTime' = m_lastOperateTime]_vars

\* The registry could not be read although devices are listed, and the
\* worker sleeps.
C8_Witness ==
    /\ hist.emptyStreak = 1
    /\ listed # {}
    /\ \E w \in Workers : worker[w].pc = "sleep"

\* C10. One-shot completion signal: no promise is set twice and no future is
\* read twice; a worker sets its promise in its last step, with the flag
\* cleared and every handle closed, and not before; a stop() that found the
\* monitor running waits on the promise of the only worker alive (or of the
\* one that has just ended), which nobody has read.
C10_OneShot ==
    /\ [](\A w \in Workers :
            /\ promiseSet[w] <= 1
            /\ futureGets[w] <= 1
            /\ futureGets[w] <= promiseSet[w]
            /\ w \in Alive => promiseSet[w] = 0)
    /\ [](\A c \in Callers :
            cpc[c] = "shutdown_get" =>
                /\ m_future \in Workers
                /\ Alive \subseteq {m_future}
                /\ m_future \notin Alive => promiseSet[m_future] = 1
                /\ futureGets[m_future] = 0)
    /\ [][\A w \in Workers :
            /\ promiseSet'[w] > promiseSet[w] =>
                    /\ worker'[w].pc = "none"
                    /\ ~m_isRunning
                    /\ AllClosed
            /\ (w \in Alive /\ w \notin Alive') => promiseSet'[w] = 1
         ]_vars

\* A stop() is about to read the value a worker has set.
C10_Witness ==
    \E c \in Callers :
        /\ cpc[c] = "shutdown_get"
        /\ m_future \in Workers
        /\ promiseSet[m_future] = 1

\* Caller c takes a step of a stop() that found the monitor not running.
RedundantStopStep(c) ==
    \/ cpc[c] = "idle" /\ cpc'[c] \in {"shutdown_clear", "stop_ret_idle"} /\ ~m_isRunning
    \/ cpc[c] = "stop_ret_idle" /\ cpc'[c] # cpc[c]

\* C11. Redundant stop is a no-op: a stop() called when the monitor is not
\* running goes straight to its return, never to the wait on the future, and
\* its steps leave m_isRunning, m_lastOperateTime, the future, the workers and
\* their promises as they were; no step of start() or stop() changes
\* m_lastOperateTime.
C11_RedundantStop ==
    [][/\ \A c \in Callers :
            RedundantStopStep(c) =>
                /\ cpc'[c] \in {"stop_ret_idle", "idle"}
                /\ UNCHANGED << m_isRunning, m_lastOperateTime, m_future,
                                worker, promiseSet, futureGets, fdtable >>
                /\ ~aborted'
       /\ cpc' # cpc => m_lastOperateTime' = m_lastOperateTime
      ]_vars

\* A stop() finds the monitor stopped by an earlier stop() that has returned,
\* after a run in which an event was read.
C11_Witness ==
    \E c \in Callers, w \in Workers :
        /\ cpc[c] = "stop_ret_idle"
        /\ futureGets[w] = 1
        /\ m_lastOperateTime > 0

\* Every descriptor of worker w's pool holds a handle, and the handle is
\* open.
HandlesPresent(w) ==
    \A n \in 1..Len(worker[w].devices) :
        /\ worker[w].devices[n].m_fd >= 0
        /\ fdtable[worker[w].devices[n].m_fd] # ""

\* C12. Pool handles present: when a rebuild has left a pool and when the
\* worker is in the multiplex wait, every descriptor of the pool holds an open
\* handle; none has m_fd = -1.
C12_HandlesPresent ==
    /\ [](\A w \in Workers : worker[w].pc = "select" => HandlesPresent(w))
    /\ [][\A w \in Workers : Rebuilt(w) => HandlesPresent(w)']_vars

\* --------------------------------------- two devices of the same make

\* The monitor as constructed, on a machine whose two devices have the same
\* "I: " line.
InitSameMake ==
    /\ m_isRunning = FALSE
    /\ m_lastOperateTime = 0
    /\ m_mtx = NoCaller
    /\ m_future = NoWorker
    /\ cpc = [c \in Callers |-> "idle"]
    /\ worker = [w \in Workers |-> NoThread]
    /\ promiseSet = [w \in Workers |-> 0]
    /\ futureGets = [w \in Workers |-> 0]
    /\ fdtable = [f \in Fds |-> ""]
    /\ listed = Devices
    /\ ids = idLineSameMake
    /\ exists = Paths
    /\ openable = Paths
    /\ clock = 1
    /\ aborted = FALSE
    /\ evText = <<>>
    /\ flagged = <<>>
    /\ hist = NoHist

SpecSameMake == InitSameMake /\ [][Next]_vars

\* The pool of worker w holds no two descriptors that operator== takes for
\* the same device.
NoDuplicates(w) ==
    \A m, n \in 1..Len(worker[w].devices) :
        m # n => ~Equal(worker[w].devices[m], worker[w].devices[n])

\* C13. Pool has no duplicates: the pool a rebuild leaves holds no two
\* descriptors that compare equal (same non-empty path, or same id), also
\* when two devices of the discovery result share their id.
C13_NoDuplicates ==
    [][\A w \in Workers : Rebuilt(w) => NoDuplicates(w)']_vars

\* The values of m_fd in worker w's pool.
PoolFds(w) == {worker[w].devices[n].m_fd : n \in 1..Len(worker[w].devices)}

\* C14. Multiplex set mirrors the pool: when the worker is in select, the
\* set it waits on (rfds, copied from allfds) is the set of the handles of
\* the pool's descriptors, none of them absent, and the last descriptor of the
\* pool holds the greatest of them, so that select looks at all of them.
C14_MirrorsPool ==
    \A w \in Workers :
        worker[w].pc = "select" =>
            /\ worker[w].rfds = PoolFds(w)
            /\ \A f \in PoolFds(w) : 0 <= f /\ f < Nfds(w)
            /\ Watched(w) = PoolFds(w)

\* Worker w passes the head of the inner loop, lines 359-366, and the clock
\* it reads there is more than StaleBound seconds after last, the reading of
\* the previous pass.
StalePass(w) ==
    /\ worker[w].pc = "inner"
    /\ worker'[w] # worker[w]
    /\ m_isRunning
    /\ worker[w].isListening
    /\ clock' - worker[w].last > StaleBound

\* C15. Staleness break: when more than 5 seconds of the monotonic clock have
\* passed since the previous pass of the inner loop, the worker leaves the
\* inner loop for the outer one without entering select.
C15_StalenessBreak ==
    [][\A w \in Workers : StalePass(w) => worker'[w].pc = "outer"]_vars

\* Worker w has just read the ready handle of the descriptor at it, and the
\* read returned one of the outcomes of the set got.
JustRead(w, got) ==
    /\ worker[w].pc = "drain"
    /\ worker'[w] # worker[w]
    /\ worker[w].devices[worker[w].it].m_fd >= 0
    /\ worker'[w].n \in got

\* The step of worker w has handled a disconnection of the descriptor at it:
\* its handle is out of the multiplex set and closed, no other descriptor is
\* read in this pass and the inner loop is about to end.
TreatedAsDisconnect(w) ==
    LET fd == worker[w].devices[worker[w].it].m_fd
    IN /\ fd \notin worker'[w].allfds
       /\ fdtable'[fd] = ""
       /\ worker'[w].devices[worker[w].it].m_fd = -1
       /\ worker'[w].isListening = FALSE
       /\ worker'[w].pc = "yield"

\* C16, as claimed: every read of a ready handle that returns less than a
\* full record (n <= 0, or part of a record) is handled as a disconnection.
C16_AsClaimed ==
    [][\A w \in Workers :
        JustRead(w, {"down", "partial"}) => TreatedAsDisconnect(w)]_vars

\* C16, amended: a read of a ready handle that returns n <= 0 is handled as a
\* disconnection (FD_CLR, close, no further read in that pass, and the inner
\* loop ends at its next test, so that the outer loop rebuilds the pool); a
\* read that returns part of a record is ignored: the pool, the multiplex
\* set, the open descriptors and isListening stay as they are and the pass
\* goes on with the next descriptor.
C16_ReadHandling ==
    [][\A w \in Workers :
        /\ JustRead(w, {"down"}) => TreatedAsDisconnect(w)
        /\ JustRead(w, {"partial"}) =>
                /\ worker'[w] = NextDevice(w, "partial")[w]
                /\ UNCHANGED << fdtable, m_lastOperateTime >>
        /\ (worker[w].pc = "inner" /\ ~worker[w].isListening /\ worker'[w] # worker[w])
                => worker'[w].pc = "outer"
      ]_vars

\* A read has returned n <= 0 on the first of two pooled devices: the second,
\* still open, is not read in that pass and the worker is on its way out of
\* the inner loop.
C16_Witness ==
    \E w \in Workers :
        /\ worker[w].pc = "yield"
        /\ worker[w].n = "down"
        /\ worker[w].isListening = FALSE
        /\ Len(worker[w].devices) = 2
        /\ worker[w].devices[1].m_fd = -1
        /\ worker[w].devices[2].m_fd >= 0

\* C17. Timestamp update rule: m_lastOperateTime is written only in the
\* step in which a worker reads, from a ready handle of its pool, a full
\* record of a key, relative or absolute event, and is then the reading of
\* the monotonic clock made in that step; every other step of the worker (a
\* full record of another class, part of a record, n <= 0, a timeout or a
\* failure of select, a rebuild) and every step of a caller leaves it
\* unchanged.
C17_UpdateRule ==
    [][/\ m_lastOperateTime' # m_lastOperateTime =>
            \E w \in Workers : JustRead(w, {"relevant"})
       /\ \A w \in Workers :
            JustRead(w, {"relevant"}) =>
                /\ worker[w].devices[worker[w].it].m_fd \in worker[w].rfds
                /\ m_lastOperateTime' = clock'
                /\ clock' >= clock
       /\ \A w \in Workers :
            (worker'[w] # worker[w] /\ ~JustRead(w, {"relevant"})) =>
                m_lastOperateTime' = m_lastOperateTime
      ]_vars

\* A key, relative or absolute event has just been read, after the clock
\* has moved on, and the timestamp is the clock's reading.
C17_Witness ==
    \E w \in Workers :
        /\ worker[w].n = "relevant"
        /\ m_lastOperateTime = clock
        /\ clock > StaleBound

\* C18. Bounded stop response: once a stop() has cleared m_isRunning, the
\* worker returns from at most one sleep or select (the 1 ms sleep of line
\* 406 apart) and starts no openInputDevices after that return, before it
\* closes the pool and sets the promise's value.
C18_BoundedStop == hist.blocks <= 1 /\ ~hist.lateRebuild

\* A stop() found the worker in select with a pool: the select has returned
\* and the worker is about to close the pool.
C18_Witness ==
    \E w \in Workers, c \in Callers :
        /\ cpc[c] = "shutdown_get"
        /\ worker[w].pc = "cleanup"
        /\ worker[w].devices # <<>>
        /\ hist.blocks = 1

\* The monitor is running, the process is alive, device d is listed and can
\* be opened, and no discovery has just found the registry unreadable.
Available(d) ==
    /\ m_isRunning
    /\ ~aborted
    /\ d \in listed
    /\ devicePath(d) \in openable
    /\ hist.emptyStreak = 0

\* C19. Device re-acquisition: a device that from some point on is found by
\* every discovery and can be opened for good, while the monitor stays
\* running, is in the
\* pool with an open handle that is waited on again and again: it does not
\* stay out of the pool for ever, whatever took it out (a failed open, a
\* disconnection) and whatever the other devices do.
C19_Reacquisition ==
    \A d \in Devices :
        <>[]Available(d) => []<>(\E w \in Workers : Pooled(w, d))

\* The descriptors of the process that are open.
OpenFds == {f \in Fds : fdtable[f] # ""}

\* The handles the descriptors of worker w's pool hold.
Held(w) == PoolFds(w) \ {-1}

\* C20. No handle leak across rebuilds: the handles that are open are those
\* the descriptors of the pool hold, each held by one descriptor only and each
\* open (so that closing it closes it once); after a rebuild, a handle of the
\* previous pool that is not held by the new pool has been closed.
C20_NoLeak ==
    /\ [](OpenFds = UNION {Held(w) : w \in Workers})
    /\ [](\A w \in Workers : \A m, n \in 1..Len(worker[w].devices) :
            (m # n /\ worker[w].devices[m].m_fd >= 0) =>
                worker[w].devices[m].m_fd # worker[w].devices[n].m_fd)
    /\ [][\A w \in Workers :
            Rebuilt(w) =>
                \A f \in Held(w) : f \notin Held(w)' => fdtable'[f] = ""
         ]_vars

\* A rebuild has replaced the two descriptors of the pool by freshly opened
\* ones: the handles 3 and 4 of the previous pool are closed.
C20_Witness ==
    \E w \in Workers :
        /\ worker[w].pc = "inner"
        /\ Held(w) = {5, 6}
        /\ OpenFds = {5, 6}

====
